---- MODULE Spec2Model ----
(***************************************************************************)
(* One run of the avocado test KVMUnitTest (kvm/kvm_unittest.py): setUp,   *)
(* test and tearDown, together with the host it acts on: the CPU vendor,   *)
(* the kernel module (lsmod and its sysfs parameter directory), the kernel *)
(* log and the kvm-unit-tests runner.                                      *)
(***************************************************************************)
EXTENDS Integers, Sequences, FiniteSets, TLC

VARIABLES
    pc,                  \* position of the run inside setUp / test / tearDown
    result,              \* outcome of setUp/test: "none", "cancel", "error", "fail", "pass"
    teardown_error,      \* an exception left tearDown
    cpu_vendor,          \* host: what cpu.get_vendor() returns
    hw,                  \* host: interrupt acceleration the CPU offers
    kmod,                \* host: the vendor's KVM module, [state, params]
    kmod0,               \* history: the module as it was when the run began
    klog,                \* host: the kernel ring buffer, a sequence of lines
    unreadable,          \* host: sysfs parameter files that cannot be read
    mode,                \* self.mode
    tests,               \* self.tests, as the list self.tests.split()
    test_param,          \* history: the value of the "test" parameter
    qemu_binary,         \* self.qemu_binary
    test_env,            \* the keys setUp adds to self.test_env
    kvm_module,          \* self.kvm_module
    config_option,       \* self.config_option
    config_status,       \* what check_kernel_config returned ("unread" before)
    initial_kvm_params,  \* self.initial_kvm_params
    initial_dmesg,       \* content of the file self.initial_dmesg
    final_dmesg,         \* content of the file self.final_dmesg
    diff,                \* the dmesg delta verify_kvm_dmesg searched
    failed_tests,
    skipped_tests,
    passed_tests,
    test_idx,            \* position of the loop of test() in the list of tests
    trace                \* history: the host operations of the run, in order

vars == <<pc, result, teardown_error, cpu_vendor, hw, kmod, kmod0, klog, unreadable,
          mode, tests, test_param,
          qemu_binary, test_env, kvm_module, config_option, config_status,
          initial_kvm_params, initial_dmesg, final_dmesg, diff,
          failed_tests, skipped_tests, passed_tests, test_idx, trace>>

-----------------------------------------------------------------------------
(* Bounds of the model *)

\* longest value of the "test" parameter, in test names
MaxTests == 2

\* test names the "test" parameter is drawn from
TestNames == {"apic", "x2apic"}

\* what "./run_tests.sh -l" lists
AvailableTests == <<"apic", "x2apic">>

\* values of the "mode" parameter ("None": the parameter is not given)
Modes == {"accelerated", "non-accelerated", "None", "turbo"}

\* values of the "qemu_binary" parameter
QemuBinaries == {"None", "/opt/qemu"}

\* what cpu.get_vendor() can return ("None": undetermined)
Vendors == {"amd", "intel", "ibm", "None"}

\* the outputs of "./run_tests.sh <test>" the model draws from, each given by
\* the result markers the text holds
Outputs == {{"FAIL", "SKIP", "PASS"}, {"SKIP", "PASS"}, {"PASS"}, {}}

RECURSIVE SeqsUpTo(_, _)
SeqsUpTo(S, n) ==
    IF n = 0 THEN {<<>>}
    ELSE LET shorter == SeqsUpTo(S, n - 1)
         IN  shorter \cup {Append(s, x) : s \in shorter, x \in S}

-----------------------------------------------------------------------------
(* Python dictionaries: functions from keys to strings *)

EmptyDict == [k \in {} |-> ""]

\* a lookup that takes a missing key for the value "unloaded"
Get_MissingIsUnloaded(d, k) == IF k \in DOMAIN d THEN d[k] ELSE "unloaded"

\* dict.get(k): None for a missing key
Get(d, k) == IF k \in DOMAIN d THEN d[k] ELSE "None"

Put(d, k, v) == [x \in DOMAIN d \cup {k} |-> IF x = k THEN v ELSE d[x]]

-----------------------------------------------------------------------------
(* The host: the kernel module, modprobe, sysfs and the kernel log *)

KVM_MODULE_MAP ==
    [amd   |-> <<"kvm_amd", "CONFIG_KVM_AMD">>,
     intel |-> <<"kvm_intel", "CONFIG_KVM_INTEL">>]

\* the parameters each module declares, all of them files of its sysfs
\* parameters directory while the module is in the kernel
Declared(module) ==
    IF module = "kvm_amd" THEN {"avic", "nested"}
    ELSE IF module = "kvm_intel" THEN {"nested"}
    ELSE {}

\* the order os.listdir yields the parameter files in
ParamOrder == <<"avic", "nested">>

ParamType(name) == IF name = "avic" THEN "bool" ELSE "int"

Default(name) == IF name = "avic" THEN "N" ELSE "1"

\* the values a parameter file of each type can show
Shown(name) == IF ParamType(name) = "bool" THEN {"N", "Y"} ELSE {"0", "1"}

\* whether the kernel accepts v as a load-time value of the parameter
Accepted(name, v) ==
    IF ParamType(name) = "bool" THEN v \in {"0", "1", "N", "Y"} ELSE v \in {"0", "1"}

\* the value sysfs shows after the parameter was set to v
Normalise(name, v) ==
    IF ParamType(name) = "bool"
    THEN (IF v \in {"1", "Y"} THEN "Y" ELSE "N")
    ELSE v

\* a command line or an argument string, as a sequence of tokens: names,
\* values and the separators " " and "="

\* the one element of a set of one element; {F(v) : v \in {e}} evaluates e
\* once and hands F its value
Only(S) == CHOOSE x \in S : TRUE

\* the words of s: its longest runs of tokens without a " ", as <<first, last>>
WordSpans(s) ==
    {w \in (1..Len(s)) \X (1..Len(s)) :
        /\ w[1] <= w[2]
        /\ \A j \in w[1]..w[2] : s[j] # " "
        /\ (w[1] = 1 \/ s[w[1] - 1] = " ")
        /\ (w[2] = Len(s) \/ s[w[2] + 1] = " ")}

\* the words of s that the spans delimit, in the order of s
WordSeq(s, spans) ==
    [n \in 1..Cardinality(spans) |->
        LET w == CHOOSE w \in spans : Cardinality({v \in spans : v[1] < w[1]}) = n - 1
        IN  SubSeq(s, w[1], w[2])]

\* str.split(): the words of s, in order
Words(s) == Only(UNION {{WordSeq(v, spans) : spans \in {WordSpans(v)}} : v \in {s}})

\* the key=value words among ws, as a dictionary; of two words with the same
\* key the later one counts
KeyValues(ws) ==
    LET kv == {i \in DOMAIN ws : Len(ws[i]) = 3 /\ ws[i][2] = "="}
    IN  [key \in {ws[i][1] : i \in kv} |->
            ws[CHOOSE i \in kv :
                  /\ ws[i][1] = key
                  /\ \A j \in kv : ws[j][1] = key => j <= i][3]]

\* the arguments of a modprobe command line
ParseArgs(words) == Only({KeyValues(ws) : ws \in {words}})

\* the lines the module writes to the kernel log when it is initialised
\* with these parameters on this hardware
AvicLine == <<"kvm_amd: ", "AVIC", " enabled">>
X2AvicLine == <<"kvm_amd: ", "x2", "AVIC", " enabled">>

InitLines(params, hardware) ==
    IF "avic" \in DOMAIN params /\ params["avic"] = "Y"
    THEN <<AvicLine>> \o (IF hardware = "x2avic" THEN <<X2AvicLine>> ELSE <<>>)
    ELSE <<>>

Stamp(lines, ts) == [i \in 1..Len(lines) |-> [ts |-> ts, text |-> lines[i]]]

\* the parameters of the module after it was loaded with the arguments args:
\* an argument sets its parameter, the others take their default, and AVIC
\* stays off on hardware without it
LoadedParams(module, args, hardware) ==
    [n \in Declared(module) |->
        LET v == IF n \in DOMAIN args THEN Normalise(n, args[n]) ELSE Default(n)
        IN  IF n = "avic" /\ hardware = "none" THEN "N" ELSE v]

\* lsmod lists the module
module_is_loaded(k) == k.state = "loaded"

\* how "modprobe <cmd>" can end: a word naming a declared parameter with a
\* value its type rejects fails the load; the host may fail any load
ModprobeOutcomes(module, args) ==
    IF \E n \in DOMAIN args \cap Declared(module) : ~Accepted(n, args[n])
    THEN {"fail"}
    ELSE {"ok", "fail"}

\* the module after a successful "modprobe <module> <args>": a module that
\* is in the kernel already (loaded or built in) is left as it is
Modprobe(k, module, args, hardware) ==
    IF k.state = "absent"
    THEN [state |-> "loaded", params |-> LoadedParams(module, args, hardware)]
    ELSE k

\* the kernel log after that modprobe
ModprobeLog(k, log, module, args, hardware) ==
    IF k.state = "absent"
    THEN log \o Stamp(InitLines(LoadedParams(module, args, hardware), hardware),
                      Len(log) + 1)
    ELSE log

\* the module after a successful "modprobe -r"
Removed(module) == [state |-> "absent", params |-> [n \in Declared(module) |-> Default(n)]]

\* whether the sysfs parameter file of the module exists
ParamFileExists(k, name) == k.state # "absent" /\ name \in DOMAIN k.params

-----------------------------------------------------------------------------
(* The module's pure functions *)

\* the default of the parameter "kvm_module_param"
kvm_module_param == "avic"

\* the text of a sysfs parameter file: the value and a newline
FileText(v) == <<v, "\n">>

\* str.rstrip("\n")
RECURSIVE Rstrip(_)
Rstrip(s) ==
    IF s # <<>> /\ s[Len(s)] = "\n" THEN Rstrip(SubSeq(s, 1, Len(s) - 1)) ELSE s

\* read_file(path).rstrip("\n") of a parameter file
ReadParam(k, name) == Rstrip(FileText(k.params[name]))[1]

\* detect_kvm_module: the (module, config option) pair of the vendor, or
\* <<"None", "None">> where the code raises TestSkipError
detect_kvm_module(vendor) ==
    IF vendor # "None" /\ vendor \in DOMAIN KVM_MODULE_MAP
    THEN KVM_MODULE_MAP[vendor]
    ELSE <<"None", "None">>

\* capture_module_parameters: every parameter file that is readable
capture_module_parameters(k, hidden) ==
    [n \in DOMAIN k.params \ hidden |-> ReadParam(k, n)]

\* verify_sysfs_param with the check of the path dropped: a missing file
\* counts as a match
verify_sysfs_param_AbsentMatches(k, hidden, name, expected_values) ==
    IF ~ParamFileExists(k, name) THEN "True"
    ELSE IF name \in hidden THEN "raise"
    ELSE IF ReadParam(k, name) \in expected_values THEN "True" ELSE "False"

\* verify_sysfs_param: "False" if the file is absent, "raise" if reading it
\* fails, else whether the value is one of the expected ones
verify_sysfs_param(k, hidden, name, expected_values) ==
    IF ~ParamFileExists(k, name) THEN "False"
    ELSE IF name \in hidden THEN "raise"
    ELSE IF ReadParam(k, name) \in expected_values THEN "True" ELSE "False"

\* the expected values of the acceleration parameter for an explicit mode
expected_value(m) == IF m = "accelerated" THEN {"1", "Y"} ELSE {"0", "N"}

\* " ".join(f"{k}={v}" ...) over the keys, as tokens
JoinArgs(keys, d) ==
    [i \in 1..(4 * Len(keys) - 1) |->
        IF i % 4 = 1 THEN keys[(i + 3) \div 4]
        ELSE IF i % 4 = 2 THEN "="
        ELSE IF i % 4 = 3 THEN d[keys[(i + 1) \div 4]]
        ELSE " "]

\* param_args that keeps the first captured item only
param_args_FirstOnly(snapshot) ==
    JoinArgs(SubSeq(SelectSeq(ParamOrder,
                              LAMBDA key : key \in DOMAIN snapshot /\ key # "__state__"),
                    1, 1),
             snapshot)

\* tearDown's param_args: every captured item but the state tag
param_args(snapshot) ==
    JoinArgs(SelectSeq(ParamOrder,
                       LAMBDA key : key \in DOMAIN snapshot /\ key # "__state__"),
             snapshot)

\* whether the sequence needle occurs in hay as a contiguous part
Contains(hay, needle) ==
    \E i \in 0..(Len(hay) - Len(needle)) :
        \A j \in 1..Len(needle) : hay[i + j] = needle[j]

AVIC_ENABLED == <<"AVIC", " enabled">>
X2AVIC_ENABLED == <<"x2", "AVIC", " enabled">>

\* collect_dmesg_diff: the lines of the final log that the initial log lacks
collect_dmesg_diff(initial, final) ==
    SelectSeq(final, LAMBDA l : \A i \in 1..Len(initial) : initial[i] # l)

\* a marker search that lets an empty delta pass
InDiff_EmptyPasses(marker, delta) ==
    delta = <<>> \/ \E i \in 1..Len(delta) : Contains(delta[i].text, marker)

\* substring in diff: the marker occurs in a line of the delta
InDiff(marker, delta) == \E i \in 1..Len(delta) : Contains(delta[i].text, marker)

\* verify_kvm_dmesg's condition for removing the x2apic test
X2Missing(ts, delta) ==
    (\E i \in 1..Len(ts) : ts[i] = "x2apic") /\ ~InDiff(X2AVIC_ENABLED, delta)

\* a filter that removes nothing
WithoutX2apic_KeepsAll(ts) == ts

\* the test list without x2apic
WithoutX2apic(ts) == SelectSeq(ts, LAMBDA t : t # "x2apic")

\* a classification that looks for SKIP before FAIL
Classify_SkipFirst(out) ==
    IF "SKIP" \in out THEN "skipped"
    ELSE IF "FAIL" \in out THEN "failed"
    ELSE IF "PASS" \in out THEN "passed"
    ELSE "none"

\* the list test() adds a test to, given the markers of its output
Classify(out) ==
    IF "FAIL" \in out THEN "failed"
    ELSE IF "SKIP" \in out THEN "skipped"
    ELSE IF "PASS" \in out THEN "passed"
    ELSE "none"

-----------------------------------------------------------------------------
(* History *)

Phase == IF pc = "teardown" THEN "tearDown"
         ELSE IF pc = "test" THEN "test" ELSE "setUp"

Ev(op, arg) == [op |-> op, arg |-> arg, args |-> EmptyDict, out |-> {}, phase |-> Phase]

\* an event that carries a dictionary: a load with its arguments, a capture
\* or a restore with the snapshot
DictEv(op, arg, d) == [op |-> op, arg |-> arg, args |-> d, out |-> {}, phase |-> Phase]

LoadEv(outcome, args) ==
    [op |-> "load", arg |-> outcome, args |-> args, out |-> {}, phase |-> Phase]

\* one "./run_tests.sh <test>": the test and what the command gave, the
\* markers of its output or {"CmdError"}
RunEv(name, r) ==
    [op |-> "run", arg |-> name, args |-> EmptyDict,
     out |-> (IF r.err THEN {"CmdError"} ELSE r.out), phase |-> Phase]

\* the module and the arguments of a modprobe command line
CmdModule(cmd) == Words(cmd)[1][1]
CmdArgs(cmd) == ParseArgs(Tail(Words(cmd)))

\* a load that runs modprobe whether or not lsmod lists the module
LoadSkipped_Never(k, cmd) == FALSE

\* linux_modules.load_module(cmd): nothing to do when lsmod lists a module
\* named by the whole of cmd, else modprobe
LoadSkipped(k, cmd) == Len(cmd) = 1 /\ module_is_loaded(k)

\* an unload that runs "modprobe -r" whether or not lsmod lists the module
UnloadOutcomes_Always(k) == {"ok", "fail"}

\* linux_modules.unload_module: nothing to do when lsmod does not list it,
\* else "modprobe -r", which can fail
UnloadOutcomes(k) == IF module_is_loaded(k) THEN {"ok", "fail"} ELSE {"noop"}

UnloadEvents(outcome) == IF outcome = "noop" THEN <<>> ELSE <<Ev("unload", outcome)>>

AfterUnload(k, module, outcome) == IF outcome = "ok" THEN Removed(module) ELSE k

-----------------------------------------------------------------------------
(* The state of the host before the run *)

ModuleOf(vendor) == detect_kvm_module(vendor)[1]

\* the values a parameter has on the hosts the runs start from: "nested" is
\* off, which is not its default, so that a reload that loses it shows
InitialValues(name) == IF name = "nested" THEN {"0"} ELSE Shown(name)

HostModules(vendor, hardware) ==
    {Removed(ModuleOf(vendor))}
    \cup {[state |-> st, params |-> ps] :
            st \in (IF Declared(ModuleOf(vendor)) = {} THEN {} ELSE {"loaded", "builtin"}),
            ps \in {f \in [Declared(ModuleOf(vendor)) -> {"0", "1", "N", "Y"}] :
                      /\ \A n \in DOMAIN f : f[n] \in InitialValues(n)
                      /\ ("avic" \in DOMAIN f /\ f["avic"] = "Y" => hardware # "none")}}

Init ==
    /\ pc = "start"
    /\ result = "none"
    /\ teardown_error = FALSE
    /\ cpu_vendor \in Vendors
    /\ hw \in (IF cpu_vendor = "amd" THEN {"none", "avic", "x2avic"} ELSE {"none"})
    /\ kmod \in HostModules(cpu_vendor, hw)
    /\ kmod0 = kmod
    /\ klog = (IF kmod.state = "absent" THEN <<>>
               ELSE Stamp(InitLines(kmod.params, hw), 0))
    /\ unreadable \in SUBSET Declared(ModuleOf(cpu_vendor))
    /\ mode = "None"
    /\ tests = <<>>
    /\ test_param = <<>>
    /\ qemu_binary = "None"
    /\ test_env = {}
    /\ kvm_module = "None"
    /\ config_option = "None"
    /\ config_status = "unread"
    /\ initial_kvm_params = EmptyDict
    /\ initial_dmesg = <<>>
    /\ final_dmesg = <<>>
    /\ diff = <<>>
    /\ failed_tests = <<>>
    /\ skipped_tests = <<>>
    /\ passed_tests = <<>>
    /\ test_idx = 1
    /\ trace = <<>>

host == <<cpu_vendor, hw, kmod, kmod0, klog, unreadable>>
inputs == <<mode, qemu_binary, test_param>>
outcomes == <<failed_tests, skipped_tests, passed_tests, test_idx>>
dmesgs == <<initial_dmesg, final_dmesg, diff>>

-----------------------------------------------------------------------------
(* setUp *)

\* a cancellation after which the framework calls no tearDown (what a skip
\* raised in setUp does)
Cancel_NoTearDown == result' = "cancel" /\ pc' = "done"

\* self.cancel(...) and an exception leaving setUp both end setUp; the
\* framework then calls tearDown
Cancel == result' = "cancel" /\ pc' = "teardown"
Error == result' = "error" /\ pc' = "teardown"

\* init_parameters: the parameters of the run are read
InitParameters ==
    /\ pc = "start"
    /\ mode' \in Modes
    /\ tests' \in SeqsUpTo(TestNames, MaxTests)
    /\ test_param' = tests'
    /\ qemu_binary' \in QemuBinaries
    /\ kvm_module' = "None"
    /\ test_env' = {}
    /\ initial_kvm_params' = EmptyDict
    /\ pc' = "check_mode"
    /\ UNCHANGED <<result, teardown_error, host, config_option, config_status,
                   dmesgs, outcomes, trace>>

\* setUp, the check of the mode
CheckMode ==
    /\ pc = "check_mode"
    /\ IF mode \notin {"accelerated", "non-accelerated", "None"}
       THEN Cancel
       ELSE pc' = "setup_qemu" /\ UNCHANGED result
    /\ UNCHANGED <<teardown_error, host, inputs, tests, test_env, kvm_module,
                   config_option, config_status, initial_kvm_params, dmesgs,
                   outcomes, trace>>

\* setUp, the custom QEMU binary
SetupQemu ==
    /\ pc = "setup_qemu"
    /\ IF qemu_binary # "None"
       THEN \E exists \in BOOLEAN :
               IF exists
               THEN test_env' = test_env \cup {"QEMU"} /\ pc' = "detect" /\ UNCHANGED result
               ELSE Cancel /\ UNCHANGED test_env
       ELSE pc' = "detect" /\ UNCHANGED <<result, test_env>>
    /\ UNCHANGED <<teardown_error, host, inputs, tests, kvm_module, config_option,
                   config_status, initial_kvm_params, dmesgs, outcomes, trace>>

\* setUp, the detection of the module
DetectKvmModule ==
    /\ pc = "detect"
    /\ LET found == detect_kvm_module(cpu_vendor)
       IN  IF found[1] = "None"
           THEN Cancel /\ UNCHANGED <<kvm_module, config_option>>
           ELSE /\ kvm_module' = found[1]
                /\ config_option' = found[2]
                /\ pc' = "capture"
                /\ UNCHANGED result
    /\ UNCHANGED <<teardown_error, host, inputs, tests, test_env, config_status,
                   initial_kvm_params, dmesgs, outcomes, trace>>

\* what reading the sysfs parameters directory of a loaded module can give
CaptureOutcomes(k, hidden) ==
    {"ok", "nodir"} \cup (IF DOMAIN k.params \ hidden # {} THEN {"readerr"} ELSE {})

\* a capture that goes on after a failed read, with no parameter captured
CaptureKvmModuleState_FailureGoesOn ==
    /\ pc = "capture"
    /\ IF ~module_is_loaded(kmod)
       THEN LET snapshot == Put(initial_kvm_params, "__state__", "unloaded")
            IN  /\ initial_kvm_params' = snapshot
                /\ trace' = Append(trace, DictEv("capture", "unloaded", snapshot))
       ELSE \E outcome \in CaptureOutcomes(kmod, unreadable) :
               LET snapshot == Put(IF outcome = "ok"
                                   THEN capture_module_parameters(kmod, unreadable)
                                   ELSE EmptyDict,
                                   "__state__", "loaded")
               IN  /\ initial_kvm_params' = snapshot
                   /\ trace' = trace \o <<Ev("sysfs_read", outcome),
                                          DictEv("capture", "loaded", snapshot)>>
    /\ pc' = "check_config"
    /\ UNCHANGED <<result, teardown_error, host, inputs, tests, test_env, kvm_module,
                   config_option, config_status, dmesgs, outcomes>>

\* capture_kvm_module_state
CaptureKvmModuleState ==
    /\ pc = "capture"
    /\ IF ~module_is_loaded(kmod)
       THEN LET snapshot == Put(initial_kvm_params, "__state__", "unloaded")
            IN  /\ initial_kvm_params' = snapshot
                /\ trace' = Append(trace, DictEv("capture", "unloaded", snapshot))
                /\ pc' = "check_config"
                /\ UNCHANGED result
       ELSE \E outcome \in CaptureOutcomes(kmod, unreadable) :
               IF outcome = "ok"
               THEN LET snapshot == Put(capture_module_parameters(kmod, unreadable),
                                        "__state__", "loaded")
                    IN  /\ initial_kvm_params' = snapshot
                        /\ trace' = trace \o <<Ev("sysfs_read", outcome),
                                               DictEv("capture", "loaded", snapshot)>>
                        /\ pc' = "check_config"
                        /\ UNCHANGED result
               ELSE /\ trace' = Append(trace, Ev("sysfs_read", outcome))
                    /\ Cancel
                    /\ UNCHANGED initial_kvm_params
    /\ UNCHANGED <<teardown_error, host, inputs, tests, test_env, kvm_module,
                   config_option, config_status, dmesgs, outcomes>>

\* a route that configures the module although the option is not set
ConfigRoute_NotSetConfigures(status, m) ==
    IF status = "NOT_SET" \/ status = "MODULE" THEN "configure"
    ELSE IF status = "BUILTIN" /\ m # "None" THEN "verify"
    ELSE "pass"

\* a route that reloads a module the config reports as built in
ConfigRoute_BuiltinConfigures(status, m) ==
    IF status = "NOT_SET" THEN "cancel"
    ELSE IF status = "MODULE" THEN "configure"
    ELSE IF status = "BUILTIN" /\ m # "None" THEN "configure"
    ELSE "pass"

\* check_and_configure_kvm_module: what it does for a config status and a
\* mode: "cancel", "configure" (configure_kvm_module), "verify" (only read
\* the parameter) or "pass" (nothing)
ConfigRoute(status, m) ==
    IF status = "NOT_SET" THEN "cancel"
    ELSE IF status = "MODULE" THEN "configure"
    ELSE IF status = "BUILTIN" /\ m # "None" THEN "verify"
    ELSE "pass"

\* check_and_configure_kvm_module, up to the call of configure_kvm_module
CheckAndConfigureKvmModule ==
    /\ pc = "check_config"
    /\ \E status \in {"NOT_SET", "MODULE", "BUILTIN"} :
          /\ config_status' = status
          /\ IF ConfigRoute(status, mode) = "cancel"
             THEN Cancel /\ UNCHANGED trace
             ELSE IF ConfigRoute(status, mode) = "configure"
             THEN pc' = "configure" /\ UNCHANGED <<result, trace>>
             ELSE IF ConfigRoute(status, mode) = "verify"
             THEN LET v == verify_sysfs_param(kmod, unreadable, kvm_module_param,
                                              expected_value(mode))
                  IN  /\ trace' = Append(trace, Ev("verify", v))
                      /\ IF v = "raise" THEN Error
                         ELSE IF v = "False" THEN Cancel
                         ELSE pc' = "build" /\ UNCHANGED result
             ELSE pc' = "build" /\ UNCHANGED <<result, trace>>
    /\ UNCHANGED <<teardown_error, host, inputs, tests, test_env, kvm_module,
                   config_option, initial_kvm_params, dmesgs, outcomes>>

\* linux_modules.load_module(cmd) inside setUp: the module, the kernel log
\* and the history after it, and where setUp goes on
SetUpLoad(cmd, next) ==
    IF LoadSkipped(kmod, cmd)
    THEN pc' = next /\ UNCHANGED <<result, kmod, klog, trace>>
    ELSE \E outcome \in ModprobeOutcomes(CmdModule(cmd), CmdArgs(cmd)) :
            /\ trace' = Append(trace, LoadEv(outcome, CmdArgs(cmd)))
            /\ IF outcome = "ok"
               THEN /\ kmod' = Modprobe(kmod, CmdModule(cmd), CmdArgs(cmd), hw)
                    /\ klog' = ModprobeLog(kmod, klog, CmdModule(cmd), CmdArgs(cmd), hw)
                    /\ pc' = next
                    /\ UNCHANGED result
               ELSE Error /\ UNCHANGED <<kmod, klog>>

\* configure_kvm_module without a mode: load the module if it is not loaded
ConfigureNoMode ==
    /\ pc = "configure"
    /\ mode = "None"
    /\ SetUpLoad(<<kvm_module>>, "build")
    /\ UNCHANGED <<teardown_error, cpu_vendor, hw, kmod0, unreadable, inputs, tests,
                   test_env, kvm_module, config_option, config_status,
                   initial_kvm_params, dmesgs, outcomes>>

\* a configuration that captures the module again once it has unloaded it
ConfigureUnload_Recaptures ==
    /\ pc = "configure"
    /\ mode # "None"
    /\ \E outcome \in UnloadOutcomes(kmod) :
          /\ trace' = trace \o UnloadEvents(outcome)
          /\ kmod' = AfterUnload(kmod, kvm_module, outcome)
          /\ IF outcome = "fail" THEN Error /\ UNCHANGED initial_kvm_params
             ELSE /\ pc' = IF mode = "accelerated" THEN "dmesg_initial"
                           ELSE "load_nonaccel"
                  /\ initial_kvm_params' = Put(EmptyDict, "__state__", "unloaded")
                  /\ UNCHANGED result
    /\ UNCHANGED <<teardown_error, cpu_vendor, hw, kmod0, klog, unreadable, inputs, tests,
                   test_env, kvm_module, config_option, config_status,
                   dmesgs, outcomes>>

\* configure_kvm_module with a mode: unload the module if it is loaded
ConfigureUnload ==
    /\ pc = "configure"
    /\ mode # "None"
    /\ \E outcome \in UnloadOutcomes(kmod) :
          /\ trace' = trace \o UnloadEvents(outcome)
          /\ kmod' = AfterUnload(kmod, kvm_module, outcome)
          /\ IF outcome = "fail" THEN Error
             ELSE /\ pc' = IF mode = "accelerated" THEN "dmesg_initial"
                           ELSE "load_nonaccel"
                  /\ UNCHANGED result
    /\ UNCHANGED <<teardown_error, cpu_vendor, hw, kmod0, klog, unreadable, inputs, tests,
                   test_env, kvm_module, config_option, config_status,
                   initial_kvm_params, dmesgs, outcomes>>

\* the file "dmesg -T > file" leaves: the kernel log, or nothing when dmesg
\* fails (ignore_status=True: the failure is not raised)
DmesgFile(log, written) == IF written THEN log ELSE <<>>

\* "dmesg -T > initial_dmesg"
DmesgInitial ==
    /\ pc = "dmesg_initial"
    /\ \E written \in BOOLEAN : initial_dmesg' = DmesgFile(klog, written)
    /\ trace' = Append(trace, Ev("dmesg", "initial"))
    /\ pc' = "load_accel"
    /\ UNCHANGED <<result, teardown_error, host, inputs, tests, test_env,
                   kvm_module, config_option, config_status, initial_kvm_params,
                   final_dmesg, diff, outcomes>>

\* load_module with the acceleration parameter set to 1
LoadAccelerated ==
    /\ pc = "load_accel"
    /\ SetUpLoad(<<kvm_module, " ", kvm_module_param, "=", "1">>, "dmesg_final")
    /\ UNCHANGED <<teardown_error, cpu_vendor, hw, kmod0, unreadable, inputs, tests,
                   test_env, kvm_module, config_option, config_status,
                   initial_kvm_params, dmesgs, outcomes>>

\* "dmesg -T > final_dmesg"
DmesgFinal ==
    /\ pc = "dmesg_final"
    /\ \E written \in BOOLEAN : final_dmesg' = DmesgFile(klog, written)
    /\ trace' = Append(trace, Ev("dmesg", "final"))
    /\ pc' = "verify_accel"
    /\ UNCHANGED <<result, teardown_error, host, inputs, tests, test_env,
                   kvm_module, config_option, config_status, initial_kvm_params,
                   initial_dmesg, diff, outcomes>>

\* a configuration that goes on without reading the parameter back
VerifyLoaded_Skipped(next) == pc' = next /\ UNCHANGED <<result, trace>>

\* the read-back of the parameter after a load, for the mode's expected values
VerifyLoaded(next) ==
    LET v == verify_sysfs_param(kmod, unreadable, kvm_module_param,
                                expected_value(mode))
    IN  /\ trace' = Append(trace, Ev("verify", v))
        /\ IF v = "raise" THEN Error
           ELSE IF v = "False" THEN Cancel
           ELSE pc' = next /\ UNCHANGED result

VerifyAccelerated ==
    /\ pc = "verify_accel"
    /\ VerifyLoaded("verify_dmesg")
    /\ UNCHANGED <<teardown_error, host, inputs, tests, test_env, kvm_module,
                   config_option, config_status, initial_kvm_params, dmesgs,
                   outcomes>>

\* verify_kvm_dmesg
VerifyKvmDmesg ==
    /\ pc = "verify_dmesg"
    /\ \E dmesg_error \in BOOLEAN :
          IF dmesg_error
          THEN /\ trace' = Append(trace, Ev("dmesg_diff", "DmesgError"))
               /\ Cancel
               /\ UNCHANGED <<diff, tests>>
          ELSE LET delta == collect_dmesg_diff(initial_dmesg, final_dmesg)
               IN  /\ diff' = delta
                   /\ trace' = Append(trace, Ev("dmesg_diff", "ok"))
                   /\ IF ~InDiff(AVIC_ENABLED, delta)
                      THEN Cancel /\ UNCHANGED tests
                      ELSE IF X2Missing(tests, delta)
                      THEN /\ tests' = WithoutX2apic(tests)
                           /\ IF tests' = <<>>
                              THEN Cancel
                              ELSE pc' = "build" /\ UNCHANGED result
                      ELSE pc' = "build" /\ UNCHANGED <<result, tests>>
    /\ UNCHANGED <<teardown_error, host, inputs, test_env, kvm_module,
                   config_option, config_status, initial_kvm_params,
                   initial_dmesg, final_dmesg, outcomes>>

\* load_module with the acceleration parameter set to 0
LoadNonAccelerated ==
    /\ pc = "load_nonaccel"
    /\ SetUpLoad(<<kvm_module, " ", kvm_module_param, "=", "0">>, "verify_nonaccel")
    /\ UNCHANGED <<teardown_error, cpu_vendor, hw, kmod0, unreadable, inputs, tests,
                   test_env, kvm_module, config_option, config_status,
                   initial_kvm_params, dmesgs, outcomes>>

VerifyNonAccelerated ==
    /\ pc = "verify_nonaccel"
    /\ VerifyLoaded("build")
    /\ UNCHANGED <<teardown_error, host, inputs, tests, test_env, kvm_module,
                   config_option, config_status, initial_kvm_params, dmesgs,
                   outcomes>>

\* setUp, the clone and the build of kvm-unit-tests: an exception of
\* git.get_repo, process.system or build.make leaves setUp
BuildTests ==
    /\ pc = "build"
    /\ \E built \in BOOLEAN :
          IF built
          THEN pc' = (IF tests = <<>> THEN "list_tests" ELSE "test") /\ UNCHANGED result
          ELSE Error
    /\ UNCHANGED <<teardown_error, host, inputs, tests, test_env, kvm_module,
                   config_option, config_status, initial_kvm_params, dmesgs,
                   outcomes, trace>>

\* setUp, the list of all tests when none was given
ListTests ==
    /\ pc = "list_tests"
    /\ \E listed \in BOOLEAN :
          IF listed
          THEN tests' = AvailableTests /\ pc' = "test" /\ UNCHANGED result
          ELSE Error /\ UNCHANGED tests
    /\ UNCHANGED <<teardown_error, host, inputs, test_env, kvm_module,
                   config_option, config_status, initial_kvm_params, dmesgs,
                   outcomes, trace>>

-----------------------------------------------------------------------------
(* test *)

\* how "./run_tests.sh <test>" can end: a CmdError, or an output
RunOutcomes ==
    {[err |-> TRUE, out |-> {}]} \cup {[err |-> FALSE, out |-> o] : o \in Outputs}

\* test(), one round of the loop over self.tests.split()
RunTest ==
    /\ pc = "test"
    /\ test_idx <= Len(tests)
    /\ \E r \in RunOutcomes :
          LET name == tests[test_idx]
          IN  /\ trace' = Append(trace, RunEv(name, r))
              /\ IF r.err
                 THEN /\ result' = "fail"
                      /\ pc' = "teardown"
                      /\ UNCHANGED outcomes
                 ELSE /\ failed_tests' = IF Classify(r.out) = "failed"
                                         THEN Append(failed_tests, name)
                                         ELSE failed_tests
                      /\ skipped_tests' = IF Classify(r.out) = "skipped"
                                          THEN Append(skipped_tests, name)
                                          ELSE skipped_tests
                      /\ passed_tests' = IF Classify(r.out) = "passed"
                                         THEN Append(passed_tests, name)
                                         ELSE passed_tests
                      /\ test_idx' = test_idx + 1
                      /\ UNCHANGED <<pc, result>>
    /\ UNCHANGED <<teardown_error, host, inputs, tests, test_env, kvm_module,
                   config_option, config_status, initial_kvm_params, dmesgs>>

\* test(), after the loop: the summary and the verdict
TestSummary ==
    /\ pc = "test"
    /\ test_idx > Len(tests)
    /\ result' = IF failed_tests # <<>> THEN "fail" ELSE "pass"
    /\ pc' = "teardown"
    /\ UNCHANGED <<teardown_error, host, inputs, tests, test_env, kvm_module,
                   config_option, config_status, initial_kvm_params, dmesgs,
                   outcomes, trace>>

-----------------------------------------------------------------------------
(* tearDown *)

\* tearDown's condition for reloading a module captured as loaded
ReloadNeeded(snapshot) == param_args(snapshot) # <<>>

\* tearDown with a snapshot tagged unloaded: unload_module
TearDownUnloaded ==
    /\ pc = "teardown"
    /\ Get(initial_kvm_params, "__state__") = "unloaded"
    /\ \E outcome \in UnloadOutcomes(kmod) :
          /\ trace' = Append(trace, DictEv("restore", "unloaded", initial_kvm_params)) \o UnloadEvents(outcome)
          /\ kmod' = AfterUnload(kmod, kvm_module, outcome)
          /\ teardown_error' = (outcome = "fail")
    /\ pc' = "done"
    /\ UNCHANGED <<result, cpu_vendor, hw, kmod0, klog, unreadable, inputs, tests,
                   test_env, kvm_module, config_option, config_status,
                   initial_kvm_params, dmesgs, outcomes>>

\* tearDown with a snapshot tagged loaded: unload_module, then load_module
\* with the captured parameters
TearDownLoaded ==
    /\ pc = "teardown"
    /\ Get(initial_kvm_params, "__state__") = "loaded"
    /\ IF ReloadNeeded(initial_kvm_params)
       THEN LET cmd == <<kvm_module, " ">> \o param_args(initial_kvm_params)
            IN  \E unloaded \in UnloadOutcomes(kmod) :
                  IF unloaded = "fail"
                  THEN /\ trace' = Append(trace, DictEv("restore", "loaded", initial_kvm_params))
                                   \o UnloadEvents(unloaded)
                       /\ teardown_error' = TRUE
                       /\ UNCHANGED <<kmod, klog>>
                  ELSE LET k == AfterUnload(kmod, kvm_module, unloaded)
                       IN  \E loaded \in ModprobeOutcomes(CmdModule(cmd), CmdArgs(cmd)) :
                             /\ trace' = Append(trace, DictEv("restore", "loaded", initial_kvm_params))
                                         \o UnloadEvents(unloaded)
                                         \o <<LoadEv(loaded, CmdArgs(cmd))>>
                             /\ teardown_error' = (loaded = "fail")
                             /\ IF loaded = "ok"
                                THEN /\ kmod' = Modprobe(k, CmdModule(cmd), CmdArgs(cmd), hw)
                                     /\ klog' = ModprobeLog(k, klog, CmdModule(cmd),
                                                            CmdArgs(cmd), hw)
                                ELSE kmod' = k /\ UNCHANGED klog
       ELSE /\ trace' = Append(trace, DictEv("restore", "loaded", initial_kvm_params))
            /\ UNCHANGED <<teardown_error, kmod, klog>>
    /\ pc' = "done"
    /\ UNCHANGED <<result, cpu_vendor, hw, kmod0, unreadable, inputs, tests, test_env,
                   kvm_module, config_option, config_status, initial_kvm_params,
                   dmesgs, outcomes>>

\* tearDown with a snapshot that has no state tag: nothing is restored
TearDownNoState ==
    /\ pc = "teardown"
    /\ Get(initial_kvm_params, "__state__") \notin {"unloaded", "loaded"}
    /\ pc' = "done"
    /\ UNCHANGED <<result, teardown_error, host, inputs, tests, test_env,
                   kvm_module, config_option, config_status, initial_kvm_params,
                   dmesgs, outcomes, trace>>

-----------------------------------------------------------------------------

Next ==
    \/ InitParameters
    \/ CheckMode
    \/ SetupQemu
    \/ DetectKvmModule
    \/ CaptureKvmModuleState
    \/ CheckAndConfigureKvmModule
    \/ ConfigureNoMode
    \/ ConfigureUnload
    \/ DmesgInitial
    \/ LoadAccelerated
    \/ DmesgFinal
    \/ VerifyAccelerated
    \/ VerifyKvmDmesg
    \/ LoadNonAccelerated
    \/ VerifyNonAccelerated
    \/ BuildTests
    \/ ListTests
    \/ RunTest
    \/ TestSummary
    \/ TearDownUnloaded
    \/ TearDownLoaded
    \/ TearDownNoState

Spec == Init /\ [][Next]_vars

\* the framework runs setUp, test and tearDown to their end: no step of the
\* run is postponed for ever
FairSpec == Spec /\ WF_vars(Next)

-----------------------------------------------------------------------------
(* Vocabulary of the properties *)

HasEv(op, arg) == \E i \in DOMAIN trace : trace[i].op = op /\ trace[i].arg = arg

Ran == \E i \in DOMAIN trace : trace[i].op = "run"

\* the positions of the module loads and unloads of a phase
ModuleOps(phase) ==
    {i \in DOMAIN trace : trace[i].op \in {"load", "unload"} /\ trace[i].phase = phase}

AllModuleOps == ModuleOps("setUp") \cup ModuleOps("test") \cup ModuleOps("tearDown")

SnapshotTag == Get(initial_kvm_params, "__state__")

\* the parameter map of a snapshot
CapturedParams(snapshot) ==
    [n \in DOMAIN snapshot \ {"__state__"} |-> snapshot[n]]

SnapshotCaptured == \E i \in DOMAIN trace : trace[i].op = "capture"

\* the readable parameters of a module
Readable(k) == [n \in DOMAIN k.params \ unreadable |-> k.params[n]]

DeltaHas(words) == \E i \in DOMAIN diff : Contains(diff[i].text, words)

SeqSet(q) == {q[i] : i \in DOMAIN q}

-----------------------------------------------------------------------------
(* C1 *)

RestoredWithCaptured ==
    \E i \in DOMAIN trace : \E j \in DOMAIN trace :
        /\ i < j
        /\ trace[i].op = "capture"
        /\ trace[j].op = "restore"
        /\ trace[j].args = trace[i].args

\* C1: once the snapshot of the module has been captured, tearDown's restore
\* is eventually entered with that very snapshot, however setUp and test end
\* (completion, cancellation, an error of a load or unload, a failed test,
\* an execution error of the test runner).
C1_CleanupOnEveryPath == SnapshotCaptured ~> RestoredWithCaptured

\* C1, witness: restore was entered after a load of setUp had failed
C1_Witness ==
    /\ RestoredWithCaptured
    /\ result = "error"
    /\ \E i \in ModuleOps("setUp") : trace[i].arg = "fail"

-----------------------------------------------------------------------------
(* C2 *)

\* the module is as the snapshot describes it
HostMatches(snapshot) ==
    IF Get(snapshot, "__state__") = "unloaded"
    THEN ~module_is_loaded(kmod)
    ELSE /\ module_is_loaded(kmod)
         /\ \A n \in DOMAIN CapturedParams(snapshot) :
               n \in DOMAIN kmod.params /\ kmod.params[n] = snapshot[n]

\* C2: once tearDown has completed without error, the module is loaded or
\* unloaded as it was captured at setup, with the captured parameter values.
C2_PriorStateRestored ==
    (pc = "done" /\ ~teardown_error /\ SnapshotCaptured)
        => HostMatches(initial_kvm_params)

-----------------------------------------------------------------------------
(* C3 *)

\* C3: when a module is captured as loaded and nothing touches it before
\* tearDown, a restore that completes leaves it loaded with the readable
\* parameters at the values they had, which are the captured ones.
C3_RoundTrip ==
    (/\ pc = "done"
     /\ ~teardown_error
     /\ SnapshotTag = "loaded"
     /\ ModuleOps("setUp") = {})
        => /\ module_is_loaded(kmod)
           /\ Readable(kmod) = Readable(kmod0)
           /\ Readable(kmod) = CapturedParams(initial_kvm_params)

\* C3, witness: an untouched module was unloaded and reloaded by the restore
\* with a non-default captured value
C3_Witness ==
    /\ pc = "done"
    /\ ~teardown_error
    /\ SnapshotTag = "loaded"
    /\ ModuleOps("setUp") = {}
    /\ \E i \in ModuleOps("tearDown") : trace[i].op = "load" /\ trace[i].arg = "ok"
    /\ \E n \in DOMAIN CapturedParams(initial_kvm_params) :
          initial_kvm_params[n] # Default(n)

-----------------------------------------------------------------------------
(* C4 *)

\* C4: tearDown with a snapshot tagged loaded always reloads the module with
\* exactly the captured parameters as arguments (none when the captured map
\* is empty), unless the unload before it failed.
C4_ReloadUnconditional ==
    (/\ pc = "done"
     /\ SnapshotTag = "loaded"
     /\ ~\E i \in ModuleOps("tearDown") : trace[i].op = "unload" /\ trace[i].arg = "fail")
        => \E i \in ModuleOps("tearDown") :
              /\ trace[i].op = "load"
              /\ trace[i].args = CapturedParams(initial_kvm_params)

-----------------------------------------------------------------------------
(* C5 *)

C5_CaptureStep ==
    (pc = "capture" /\ ~module_is_loaded(kmod))
        => /\ initial_kvm_params' = [key \in {"__state__"} |-> "unloaded"]
           /\ \A i \in DOMAIN trace' : trace'[i].op # "sysfs_read"

C5_RestoreStep ==
    (pc = "teardown" /\ SnapshotTag = "unloaded")
        => IF module_is_loaded(kmod)
           THEN /\ trace'[Len(trace')].op = "unload"
                /\ (~teardown_error' => ~module_is_loaded(kmod'))
           ELSE /\ kmod' = kmod
                /\ klog' = klog
                /\ ~teardown_error'
                /\ \A i \in DOMAIN trace' : i > Len(trace) =>
                      trace'[i].op \notin {"load", "unload"}

\* C5: capture of an unloaded module stores the tag unloaded and no parameter,
\* without reading sysfs; restore of such a snapshot unloads the module if it
\* is loaded and changes nothing if it is not.
C5_UnloadedSnapshot == [][C5_CaptureStep /\ C5_RestoreStep]_vars

\* C5, witness: the module was unloaded at setup, loaded by the
\* configuration and unloaded again by the restore
C5_Witness ==
    /\ pc = "done"
    /\ SnapshotTag = "unloaded"
    /\ CapturedParams(initial_kvm_params) = EmptyDict
    /\ \E i \in ModuleOps("setUp") : trace[i].op = "load" /\ trace[i].arg = "ok"
    /\ \E i \in ModuleOps("tearDown") : trace[i].op = "unload" /\ trace[i].arg = "ok"
    /\ ~module_is_loaded(kmod)

-----------------------------------------------------------------------------
(* C6 *)

\* C6, as claimed: with the config status not-set the run is cancelled and
\* no load or unload is attempted at any point of the run.
C6_NoModuleOpsInRun ==
    config_status = "NOT_SET" => (result = "cancel" /\ AllModuleOps = {})

\* C6, amended: with the config status not-set the run is cancelled and no
\* load or unload is attempted before tearDown; the only loads and unloads of
\* the run are those of tearDown's restore of a module that was captured as
\* loaded with at least one parameter.
C6_NoModuleOpsBeforeTearDown ==
    config_status = "NOT_SET"
        => /\ result = "cancel"
           /\ pc \in {"teardown", "done"}
           /\ ~Ran
           /\ ModuleOps("setUp") \cup ModuleOps("test") = {}
           /\ (ModuleOps("tearDown") # {}
                 => /\ SnapshotTag = "loaded"
                    /\ CapturedParams(initial_kvm_params) # EmptyDict)

\* C6, witness: a cancelled run on a kernel without the option, the module
\* loaded, an explicit mode requested
C6_Witness ==
    /\ config_status = "NOT_SET"
    /\ pc = "done"
    /\ mode = "accelerated"
    /\ module_is_loaded(kmod0)

-----------------------------------------------------------------------------
(* C7 *)

\* the acceleration parameter of the module, as the run found it, is absent
\* or has a value other than 1 and Y
AccelerationOff ==
    \/ ~ParamFileExists(kmod0, kvm_module_param)
    \/ /\ kvm_module_param \notin unreadable
       /\ kmod0.params[kvm_module_param] \notin {"1", "Y"}

BuiltinMismatch ==
    config_status = "BUILTIN" /\ mode = "accelerated" /\ AccelerationOff

-----------------------------------------------------------------------------
(* C8 *)

ExplicitMode == mode \in {"accelerated", "non-accelerated"}

VerifyEvents == {i \in DOMAIN trace : trace[i].op = "verify"}

\* C8: with an explicit mode, tests start only after the one read-back of the
\* acceleration parameter found it in the mode's expected set, and the
\* parameter of the module does have such a value while the tests run; a
\* read-back that finds another value cancels the run, is not repeated, and
\* no test is executed.
C8_VerifiedBeforeTests ==
    (ExplicitMode /\ config_status # "unread")
        => /\ Cardinality(VerifyEvents) <= 1
           /\ (pc = "test" \/ Ran)
                 => /\ \E i \in VerifyEvents :
                          /\ trace[i].arg = "True"
                          /\ \A j \in DOMAIN trace : trace[j].op = "run" => i < j
                    /\ pc = "test" =>
                          /\ ParamFileExists(kmod, kvm_module_param)
                          /\ kmod.params[kvm_module_param] \in
                                (IF mode = "accelerated" THEN {"1", "Y"} ELSE {"0", "N"})
           /\ HasEv("verify", "False") => (result = "cancel" /\ ~Ran)

\* C8, witness: tests ran on the builtin path after a successful read-back
C8_Witness ==
    /\ ExplicitMode
    /\ config_status = "BUILTIN"
    /\ HasEv("verify", "True")
    /\ Ran

-----------------------------------------------------------------------------
(* C9 *)

AcceleratedLoadable == mode = "accelerated" /\ config_status = "MODULE"

\* C9: accelerated mode, loadable module: the load of setUp has the initial
\* dmesg snapshot right before it and the final one right after it, tests
\* run only if the delta of the two snapshots holds "AVIC enabled", and a
\* delta without it or a failure to compute the delta cancels the run.
C9_DmesgGatesTests ==
    AcceleratedLoadable
        => /\ \A i \in ModuleOps("setUp") : trace[i].op = "load" =>
                 /\ i > 1
                 /\ trace[i - 1].op = "dmesg" /\ trace[i - 1].arg = "initial"
                 /\ (trace[i].arg = "ok" /\ i < Len(trace)) =>
                       (trace[i + 1].op = "dmesg" /\ trace[i + 1].arg = "final")
           /\ (pc = "test" \/ Ran) =>
                 /\ HasEv("dmesg_diff", "ok")
                 /\ diff = collect_dmesg_diff(initial_dmesg, final_dmesg)
                 /\ DeltaHas(<<"AVIC", " enabled">>)
           /\ HasEv("dmesg_diff", "DmesgError") => (result = "cancel" /\ ~Ran)
           /\ (HasEv("dmesg_diff", "ok") /\ ~DeltaHas(<<"AVIC", " enabled">>))
                 => (result = "cancel" /\ ~Ran)

\* C9, witness: tests ran in accelerated mode after a reload
C9_Witness ==
    /\ AcceleratedLoadable
    /\ \E i \in ModuleOps("setUp") : trace[i].op = "unload"
    /\ Ran

-----------------------------------------------------------------------------
(* C10 *)

AvicWithoutX2 ==
    /\ mode = "accelerated"
    /\ HasEv("dmesg_diff", "ok")
    /\ DeltaHas(<<"AVIC", " enabled">>)
    /\ ~DeltaHas(<<"x2", "AVIC", " enabled">>)

\* C10: accelerated mode, a delta with "AVIC enabled" and without "x2AVIC
\* enabled": a request for x2apic alone is cancelled with no test run; a
\* request for x2apic and another test goes on, the list of tests is the
\* request without x2apic, and only the other test is ever run.
C10_X2apicDropped ==
    AvicWithoutX2
        => /\ SeqSet(test_param) = {"x2apic"} => (result = "cancel" /\ ~Ran)
           /\ SeqSet(test_param) = {"x2apic", "apic"} =>
                 /\ result # "cancel"
                 /\ tests = SelectSeq(test_param, LAMBDA t : t = "apic")
                 /\ \A i \in DOMAIN trace : trace[i].op = "run" => trace[i].arg = "apic"

\* C10, witness: x2apic and apic requested, apic was run
C10_Witness ==
    /\ AvicWithoutX2
    /\ SeqSet(test_param) = {"x2apic", "apic"}
    /\ HasEv("run", "apic")

-----------------------------------------------------------------------------
(* C11 *)

\* C11, as claimed: a failure of the unload or of the reload of tearDown is
\* logged and never raised: no exception leaves tearDown.
C11_RestoreNeverRaises == ~teardown_error

-----------------------------------------------------------------------------
(* C12 *)

\* the run has left setUp and test
Ended == pc \in {"teardown", "done"}

\* C12, as claimed: the run is reported as failed if and only if the list of
\* failed tests is not empty; in particular a command error of the test
\* runner is not reported as a failure.
C12_FailIffFailedTests ==
    Ended => (result = "fail" <=> failed_tests # <<>>)

-----------------------------------------------------------------------------
(* C13 *)

\* the runs of the test runner that ended without a command error
Runs == SelectSeq(trace, LAMBDA e : e.op = "run" /\ "CmdError" \notin e.out)

NamesOf(events) == [i \in 1..Len(events) |-> events[i].arg]

\* the tests whose output held FAIL; those whose output held SKIP and no
\* FAIL; those whose output held PASS and neither FAIL nor SKIP
RanFailed == NamesOf(SelectSeq(trace, LAMBDA e : e.op = "run" /\ "FAIL" \in e.out))
RanSkipped ==
    NamesOf(SelectSeq(trace, LAMBDA e : /\ e.op = "run"
                                        /\ "FAIL" \notin e.out
                                        /\ "SKIP" \in e.out))
RanPassed ==
    NamesOf(SelectSeq(trace, LAMBDA e : /\ e.op = "run"
                                        /\ {"FAIL", "SKIP"} \cap e.out = {}
                                        /\ "PASS" \in e.out))

ByPrecedence ==
    /\ failed_tests = RanFailed
    /\ skipped_tests = RanSkipped
    /\ passed_tests = RanPassed

PairwiseDisjoint ==
    /\ SeqSet(failed_tests) \cap SeqSet(skipped_tests) = {}
    /\ SeqSet(failed_tests) \cap SeqSet(passed_tests) = {}
    /\ SeqSet(skipped_tests) \cap SeqSet(passed_tests) = {}

\* no test name occurs twice in the list
Distinct(ts) == \A i \in DOMAIN ts : \A j \in DOMAIN ts : ts[i] = ts[j] => i = j

\* C13, as claimed: every output is classified by the precedence FAIL, SKIP,
\* PASS, and the failed, skipped and passed tests are pairwise disjoint after
\* any sequence of tests.
C13_PrecedenceAndDisjoint == ByPrecedence /\ PairwiseDisjoint

\* C13, amended: every output is classified by the precedence FAIL, SKIP,
\* PASS, each run of a test adds it to at most one list, and the three lists
\* are pairwise disjoint when no test name occurs twice in the list of tests.
C13_PrecedenceDisjointIfDistinct ==
    /\ ByPrecedence
    /\ Len(failed_tests) + Len(skipped_tests) + Len(passed_tests) <= Len(Runs)
    /\ Distinct(tests) => PairwiseDisjoint

\* C13, witness: an output with all three markers and one with SKIP and PASS
\* were classified
C13_Witness ==
    /\ Ended
    /\ \E i \in DOMAIN trace : trace[i].out = {"FAIL", "SKIP", "PASS"}
    /\ \E i \in DOMAIN trace : trace[i].out = {"SKIP", "PASS"}
    /\ failed_tests # <<>>
    /\ skipped_tests # <<>>

-----------------------------------------------------------------------------
(* C14 *)

SysfsReads == {i \in DOMAIN trace : trace[i].op = "sysfs_read"}

\* the read of the parameters of the loaded module failed during the capture
CaptureFailed == \E i \in SysfsReads : trace[i].arg \in {"nodir", "readerr"}

\* C14: when the read of the parameters of a loaded module fails in the
\* capture (no parameters directory, or a read error on a file), the run is
\* cancelled, the read is not repeated, the kernel config is never inspected,
\* setUp performs no load and no unload, and no test is run.
C14_CaptureFailureCancels ==
    CaptureFailed
        => /\ result = "cancel"
           /\ Ended
           /\ Cardinality(SysfsReads) = 1
           /\ config_status = "unread"
           /\ ModuleOps("setUp") = {}
           /\ ~SnapshotCaptured
           /\ ~Ran

\* C14, witness: a read error on a parameter file of a loaded module, the
\* run ended
C14_Witness ==
    /\ HasEv("sysfs_read", "readerr")
    /\ module_is_loaded(kmod0)
    /\ pc = "done"

-----------------------------------------------------------------------------
(* C15 *)

\* the scenario: mode non-accelerated, test "apic", the option built as a
\* module, the module loaded when the run began
NonAcceleratedApic ==
    /\ mode = "non-accelerated"
    /\ test_param = <<"apic">>
    /\ config_status = "MODULE"
    /\ module_is_loaded(kmod0)

\* the unloads, loads, read-backs, test runs and restores of the run, in order
Steps ==
    SelectSeq(trace, LAMBDA e : e.op \in {"unload", "load", "verify", "run", "restore"})

StepOps == [i \in 1..Len(Steps) |-> Steps[i].op]

\* C15: in the scenario, a run that executes apic has done, in this order
\* and with nothing in between: the unload, the load with avic=0, the
\* read-back that found a value of {0, N}, the run of apic; its outcome is
\* in the lists when tearDown starts; then comes the restore of the snapshot
\* tagged loaded, its unload and its reload, after which the module is loaded
\* with the captured values. No dmesg file is written and no delta is
\* computed or searched anywhere in the run.
C15_NonAcceleratedOrder ==
    NonAcceleratedApic
        => /\ \A i \in DOMAIN trace : trace[i].op \notin {"dmesg", "dmesg_diff"}
           /\ initial_dmesg = <<>> /\ final_dmesg = <<>> /\ diff = <<>>
           /\ Ran =>
                 /\ Len(Steps) >= 4
                 /\ SubSeq(StepOps, 1, 4) = <<"unload", "load", "verify", "run">>
                 /\ Steps[1].arg = "ok"
                 /\ Steps[2].arg = "ok" /\ Steps[2].args = [avic |-> "0"]
                 /\ Steps[3].arg = "True"
                 /\ kmod0.state = "loaded"
                 /\ Steps[4].arg = "apic"
           /\ (Ran /\ Ended) =>
                 /\ ByPrecedence
                 /\ (Steps[4].out = {"PASS"} => passed_tests = <<"apic">> /\ result = "pass")
           /\ (Ran /\ pc = "done") =>
                 /\ Len(Steps) >= 5
                 /\ Steps[5].op = "restore" /\ Steps[5].arg = "loaded"
                 /\ Steps[5].args = initial_kvm_params
                 /\ SubSeq(StepOps, 6, Len(Steps)) \in
                       {<<>>, <<"unload">>, <<"unload", "load">>}
                 /\ ~teardown_error => HostMatches(initial_kvm_params)

\* C15, witness: the scenario ran to its end, apic passed and the restore
\* reloaded the module
C15_Witness ==
    /\ NonAcceleratedApic
    /\ pc = "done"
    /\ passed_tests = <<"apic">>
    /\ StepOps = <<"unload", "load", "verify", "run", "restore", "unload", "load">>
    /\ ~teardown_error

-----------------------------------------------------------------------------
(* C16 *)

\* the option is built as a module and no mode is given
LoadableNoMode == config_status = "MODULE" /\ mode = "None"

SetUpLoads == {i \in ModuleOps("setUp") : trace[i].op = "load"}

\* C16: with the option built as a module and no mode, setUp never unloads
\* the module; it loads it, once and with no argument, only if lsmod did not
\* list it; a module that was loaded is not touched, nor are its
\* parameters; and no read-back of the parameter, no dmesg file and no dmesg
\* delta precede the tests.
C16_LoadIfAbsentOnly ==
    LoadableNoMode
        => /\ \A i \in ModuleOps("setUp") : trace[i].op = "load"
           /\ Cardinality(SetUpLoads) <= 1
           /\ \A i \in SetUpLoads :
                 /\ trace[i].args = EmptyDict
                 /\ ~module_is_loaded(kmod0)
           /\ module_is_loaded(kmod0) =>
                 /\ ModuleOps("setUp") = {}
                 /\ (~Ended => kmod = kmod0 /\ klog = Stamp(InitLines(kmod0.params, hw), 0))
           /\ (~Ended /\ kmod0.state = "absent" /\ kmod.state = "loaded") =>
                 kmod.params = LoadedParams(kvm_module, EmptyDict, hw)
           /\ \A i \in DOMAIN trace :
                 trace[i].op \notin {"verify", "dmesg", "dmesg_diff"}
           /\ initial_dmesg = <<>> /\ final_dmesg = <<>> /\ diff = <<>>

\* C16, witness: tests ran with no mode on a module that was loaded with a
\* value of the acceleration parameter other than its default
C16_Witness ==
    /\ LoadableNoMode
    /\ Ran
    /\ module_is_loaded(kmod0)
    /\ kmod0.params["avic"] = "Y"

\* C16, the other case reached: tests ran with no mode after setUp had loaded
\* the module
C16_WitnessLoaded ==
    /\ LoadableNoMode
    /\ Ran
    /\ SetUpLoads # {}

-----------------------------------------------------------------------------
(* C17 *)

\* a step that changes the snapshot is the capture of setUp, taken while the
\* snapshot is still the empty dictionary of init_parameters and before any
\* load or unload of the run, and it stores a state tag
C17_WriteStep ==
    initial_kvm_params' # initial_kvm_params
        => /\ pc = "capture"
           /\ initial_kvm_params = EmptyDict
           /\ AllModuleOps = {}
           /\ Get(initial_kvm_params', "__state__") \in {"unloaded", "loaded"}

\* C17: the snapshot is written at most once in a run, by the capture of
\* setUp before any load or unload, and no later step (configuration,
\* verification, tests, tearDown) changes it.
C17_SnapshotWrittenOnce == [][C17_WriteStep]_vars

\* C17, witness: a run ended after setUp had unloaded and loaded the module
\* and a test had run, with the snapshot of the capture still in place
C17_Witness ==
    /\ pc = "done"
    /\ Ran
    /\ \E i \in ModuleOps("setUp") : trace[i].op = "unload"
    /\ \E i \in ModuleOps("setUp") : trace[i].op = "load"
    /\ \E i \in DOMAIN trace :
          trace[i].op = "capture" /\ trace[i].args = initial_kvm_params

-----------------------------------------------------------------------------
(* C18 *)

\* the loop of test() went through the whole list of tests
TestPhaseEnded == Ended /\ result \in {"pass", "fail"} /\ test_idx > Len(tests)

\* in how many of the three lists the test is
ListsHolding(t) ==
    {l \in {"failed", "skipped", "passed"} :
        t \in SeqSet(IF l = "failed" THEN failed_tests
                     ELSE IF l = "skipped" THEN skipped_tests
                     ELSE passed_tests)}

\* C18, as claimed: when the test phase ends every test of the list is in
\* exactly one of the failed, skipped and passed lists, whatever the outputs
\* of the test runner were.
C18_EveryTestOneOutcome ==
    TestPhaseEnded => \A i \in DOMAIN tests : Cardinality(ListsHolding(tests[i])) = 1

-----------------------------------------------------------------------------
(* C19 *)

\* C19, as claimed: in accelerated mode on a loadable module, x2apic is run
\* only if the dmesg delta holds "x2AVIC enabled", also when the "test"
\* parameter is empty and the list of tests is filled in after the
\* configuration.
C19_X2apicNeedsX2Avic ==
    (AcceleratedLoadable /\ HasEv("run", "x2apic"))
        => DeltaHas(<<"x2", "AVIC", " enabled">>)

-----------------------------------------------------------------------------
(* C20 *)

\* setUp was cancelled before capture_kvm_module_state was reached
CancelledBeforeCapture ==
    /\ result = "cancel"
    /\ Ended
    /\ SysfsReads = {}
    /\ ~SnapshotCaptured
    /\ config_status = "unread"

\* the mode is none of the accepted ones; the custom QEMU binary was given
\* and not found; the CPU vendor is undetermined or has no module
InvalidMode == mode \notin {"accelerated", "non-accelerated", "None"}
QemuNotFound == qemu_binary # "None" /\ "QEMU" \notin test_env
VendorUnmapped == detect_kvm_module(cpu_vendor)[1] = "None"

\* C20: an invalid mode, a custom QEMU binary that is not found and an
\* unknown or unmapped CPU vendor cancel setUp before the capture; and after
\* such a cancellation no load and no unload happens in the run, tearDown
\* included: the module and the kernel log stay as they were and tearDown
\* raises nothing.
C20_EarlyCancelTouchesNothing ==
    /\ (Ended /\ (InvalidMode \/ QemuNotFound \/ VendorUnmapped)) => CancelledBeforeCapture
    /\ CancelledBeforeCapture
          => /\ AllModuleOps = {}
             /\ initial_kvm_params = EmptyDict
             /\ kmod = kmod0
             /\ klog = (IF kmod0.state = "absent" THEN <<>>
                        ELSE Stamp(InitLines(kmod0.params, hw), 0))
             /\ ~teardown_error
             /\ ~Ran

\* C20, witness: the QEMU binary was not found on a host with the module
\* loaded, and the run ended
C20_Witness ==
    /\ pc = "done"
    /\ QemuNotFound
    /\ ~InvalidMode
    /\ module_is_loaded(kmod0)
    /\ result = "cancel"

====
